---- MODULE Spec2Model ----
(***************************************************************************)
(* Model of the EPSS API repository (apiRepository) of                     *)
(* golang-epsstool-api: the six query operations, the fetch/decode path    *)
(* they share, the highest-increase aggregation, and the command line      *)
(* tool that calls them (SpecCLI).                                         *)
(*                                                                         *)
(* Scores are fixed-point integers in units of 0.0001 (4 stands for        *)
(* 0.0004).  A decimal string on the wire is the sequence of its digit     *)
(* characters; strconv.ParseFloat is modelled on unsigned digit strings.   *)
(* A calendar date is a day number, formatted through Calendar.            *)
(***************************************************************************)
EXTENDS Integers, Sequences, FiniteSets, TLC

VARIABLES pc, op, days, limit, i, scoreChangesMap, http, unmarshalled, ret,
          argv, cliErr

vars == <<pc, op, days, limit, i, scoreChangesMap, http, unmarshalled, ret,
          argv, cliErr>>

\* the command line (argv) and the error the command layer returns before
\* any operation is called (cliErr)
cli == <<argv, cliErr>>

(***************************************************************************)
(* Bounds of the model.                                                    *)
(***************************************************************************)
MaxDays == 2
MaxLimit == 2
MaxData == 2

StatusOK == 200
StatusInternalServerError == 500

(***************************************************************************)
(* Wire strings and number parsing.                                        *)
(***************************************************************************)
Digits == <<"0", "1", "2", "3", "4", "5", "6", "7", "8", "9">>

IsDigit(c) == \E k \in 1..Len(Digits) : Digits[k] = c

DigitVal(c) == (CHOOSE k \in 1..Len(Digits) : Digits[k] = c) - 1

RECURSIVE DecimalValue(_)
DecimalValue(s) ==
    IF s = <<>> THEN 0
    ELSE 10 * DecimalValue(SubSeq(s, 1, Len(s) - 1)) + DigitVal(s[Len(s)])

\* strconv.ParseFloat on an unsigned digit string: a syntax error for the
\* empty string and for any string holding a character that is no digit.
ParseFloat(s) ==
    IF Len(s) > 0 /\ \A k \in 1..Len(s) : IsDigit(s[k])
    THEN [err |-> FALSE, val |-> DecimalValue(s)]
    ELSE [err |-> TRUE, val |-> 0]

(***************************************************************************)
(* JSON values as json.Unmarshal hands them over.  A field of an element   *)
(* is a string (str = TRUE) or anything else, a missing key included       *)
(* (str = FALSE): the type assertion .(string) tells no more apart.        *)
(***************************************************************************)
JString(v) == [str |-> TRUE, s |-> v]
JNoText == [str |-> FALSE, s |-> ""]
JNoNumber == [str |-> FALSE, s |-> <<>>]

JObject(cve, epss, percentile, date) ==
    [obj |-> TRUE, cve |-> cve, epss |-> epss, percentile |-> percentile, date |-> date]

\* an element of the data array that is no JSON object (a number, null, ...)
JScalarElem ==
    [obj |-> FALSE, cve |-> JNoText, epss |-> JNoNumber, percentile |-> JNoNumber,
     date |-> JNoText]

\* body kinds: "invalid" is no JSON text, "array" a JSON value that is no
\* object, "object" a JSON object whose data member is absent, a non-array
\* ("scalar") or an array (elems).
BodyInvalid == [json |-> "invalid", data |-> "absent", elems |-> <<>>]
BodyTopArray == [json |-> "array", data |-> "absent", elems |-> <<>>]
BodyNoData == [json |-> "object", data |-> "absent", elems |-> <<>>]
BodyScalarData == [json |-> "object", data |-> "scalar", elems |-> <<>>]
BodyData(elems) == [json |-> "object", data |-> "array", elems |-> elems]

Response(neterr, status, body) == [neterr |-> neterr, status |-> status, body |-> body]

(***************************************************************************)
(* Return values.  status is "ok" (nil error), "error" (a returned error,  *)
(* err names its message) or "panic" (a run-time panic unwinds the call).  *)
(* cves is the returned slice; for GetCVEScore it holds the pointed-to     *)
(* record, and <<>> stands for nil.                                        *)
(***************************************************************************)
NoRet == [status |-> "none", err |-> "", cves |-> <<>>, changes |-> <<>>]
RetOK(cves) == [status |-> "ok", err |-> "", cves |-> cves, changes |-> <<>>]
RetChanges(changes) == [status |-> "ok", err |-> "", cves |-> <<>>, changes |-> changes]
RetErr(msg) == [status |-> "error", err |-> msg, cves |-> <<>>, changes |-> <<>>]
RetPanic == [status |-> "panic", err |-> "", cves |-> <<>>, changes |-> <<>>]

(***************************************************************************)
(* The fetch and decode path.                                              *)
(***************************************************************************)
\* fetchData without the status check
fetchData_NoStatusCheck(resp) ==
    IF resp.neterr THEN [err |-> "failed to fetch data", data |-> BodyInvalid]
    ELSE [err |-> "", data |-> resp.body]

\* fetchData: a transport error and any status other than 200 return an
\* error before the body is read; otherwise the body is returned.
fetchData(resp) ==
    IF resp.neterr THEN [err |-> "failed to fetch data", data |-> BodyInvalid]
    ELSE IF resp.status # StatusOK
         THEN [err |-> "unexpected status code", data |-> BodyInvalid]
         ELSE [err |-> "", data |-> resp.body]

\* json.Unmarshal into an interface{} (intoMap = FALSE) accepts every JSON
\* text; into a map[string]interface{} (intoMap = TRUE) only a JSON object.
UnmarshalFails(data, intoMap) ==
    \/ data.json = "invalid"
    \/ intoMap /\ data.json # "object"

convertSingleAPIResponseToCVE(item) ==
    IF ~item.cve.str THEN RetErr("missing cve field")
    ELSE IF ~item.epss.str THEN RetErr("missing epss field")
    ELSE IF ~item.percentile.str THEN RetErr("missing percentile field")
    ELSE IF ~item.date.str THEN RetErr("missing date field")
    ELSE LET epssFloat == ParseFloat(item.epss.s)
             percentileFloat == ParseFloat(item.percentile.s)
         IN IF epssFloat.err THEN RetErr("failed to parse epss field")
            ELSE IF percentileFloat.err THEN RetErr("failed to parse percentile field")
            ELSE RetOK(<<[ID |-> item.cve.s,
                          EPSSScore |-> epssFloat.val,
                          Percentile |-> percentileFloat.val,
                          Date |-> item.date.s]>>)

\* convertElems putting each record in front of the earlier ones
RECURSIVE convertElems_Reversed(_, _)
convertElems_Reversed(apiData, cves) ==
    IF apiData = <<>> THEN RetOK(cves)
    ELSE IF ~Head(apiData).obj THEN RetPanic
    ELSE LET r == convertSingleAPIResponseToCVE(Head(apiData))
         IN IF r.status # "ok" THEN r
            ELSE convertElems_Reversed(Tail(apiData), r.cves \o cves)

\* the loop over the data array: the unchecked assertion
\* item.(map[string]interface{}) panics on an element that is no object.
RECURSIVE convertElems(_, _)
convertElems(apiData, cves) ==
    IF apiData = <<>> THEN RetOK(cves)
    ELSE IF ~Head(apiData).obj THEN RetPanic
    ELSE LET r == convertSingleAPIResponseToCVE(Head(apiData))
         IN IF r.status # "ok" THEN r
            ELSE convertElems(Tail(apiData), cves \o r.cves)

convertAPIResponseToCVEDataArray(item) ==
    IF item.json # "object" THEN RetErr("unexpected response type")
    ELSE IF item.data # "array" THEN RetErr("unexpected response type")
    ELSE convertElems(item.elems, <<>>)

\* the same conversion under its second name, used by GetCVEScore
convertAPIResponseToCVEData(item) ==
    IF item.json # "object" THEN RetErr("unexpected response type")
    ELSE IF item.data # "array" THEN RetErr("unexpected response type")
    ELSE convertElems(item.elems, <<>>)

(***************************************************************************)
(* Requests.  buildURL adds every parameter to the query of the base URL;  *)
(* a request is modelled by its parameter map.                             *)
(***************************************************************************)
Calendar ==
    <<"2024-09-26", "2024-09-27", "2024-09-28", "2024-09-29", "2024-09-30",
      "2024-10-01", "2024-10-02", "2024-10-03">>

\* time.Now(), as a day number
Now == Len(Calendar)

\* AddDate leaving the date where it is
AddDate_Ignored(t, n) == t

AddDate(t, n) == t + n

\* Time.Format("2006-01-02")
Format(t) == Calendar[t]

\* strconv.Itoa
Itoa(n) == ToString(n)

\* strconv.FormatFloat(threshold, 'f', 2, 64) of a threshold given in
\* thousandths: the digits of the nearest hundredth.  A threshold ending in
\* 5 is no exact float64; the float64 nearest to it decides the rounding
\* (0.955 is stored below the midpoint and prints 0.95, 0.375 is exact and
\* rounds half to even, 0.38).
HalfRoundsUp == {375}

RECURSIVE DecimalDigits(_)
DecimalDigits(n) ==
    IF n < 10 THEN <<Digits[n + 1]>>
    ELSE Append(DecimalDigits(n \div 10), Digits[(n % 10) + 1])

FormatFloat(threshold) ==
    LET h == threshold \div 10
        r == threshold % 10
    IN DecimalDigits(IF r > 5 \/ (r = 5 /\ threshold \in HalfRoundsUp) THEN h + 1 ELSE h)

(***************************************************************************)
(* The upstream: what the API may answer.                                  *)
(***************************************************************************)
CVEOrder == <<"CVE-A", "CVE-B">>
CVEIds == {CVEOrder[k] : k \in 1..Len(CVEOrder)}

Good1 == JObject(JString("CVE-A"), JString(<<"0", "4">>), JString(<<"1", "3">>),
                 JString("2024-10-01"))
Good2 == JObject(JString("CVE-B"), JString(<<"5", "0">>), JString(<<"1", "5">>),
                 JString("2024-10-01"))
NoCve == [Good1 EXCEPT !.cve = JNoText]
NoEpss == [Good1 EXCEPT !.epss = JNoNumber]
NoPercentile == [Good1 EXCEPT !.percentile = JNoNumber]
NoDate == [Good1 EXCEPT !.date = JNoText]
BadEpss == [Good1 EXCEPT !.epss = JString(<<"4", "x">>)]
BadPercentile == [Good1 EXCEPT !.percentile = JString(<<>>)]

ElemPool ==
    {Good1, Good2, NoCve, NoEpss, NoPercentile, NoDate, BadEpss, BadPercentile,
     JScalarElem}

DataArrays == UNION {[1..n -> ElemPool] : n \in 0..MaxData}

Bodies ==
    {BodyInvalid, BodyTopArray, BodyNoData, BodyScalarData}
        \cup {BodyData(a) : a \in DataArrays}

\* answers to a single request: any body under 200, a decodable body under
\* 500, and a transport error
Responses ==
    {Response(FALSE, StatusOK, b) : b \in Bodies}
        \cup {Response(FALSE, StatusInternalServerError, BodyData(<<Good1, Good2>>)),
              Response(TRUE, 0, BodyInvalid)}

\* a day's listing: the score of each CVE it lists, a CVE being listed once
\* or not at all
ScoresOf == [c \in CVEIds |-> IF c = "CVE-A" THEN {0, 4, 9} ELSE {5, 9}]
Listings ==
    UNION {{l \in [S -> UNION {ScoresOf[c] : c \in CVEIds}] : \A c \in S : l[c] \in ScoresOf[c]} :
             S \in SUBSET CVEIds}

ListingElems(l, date) ==
    LET present == SelectSeq(CVEOrder, LAMBDA c : c \in DOMAIN l)
    IN [k \in 1..Len(present) |->
          JObject(JString(present[k]), JString(DecimalDigits(l[present[k]])),
                  JString(<<"1", "3">>), JString(date))]

BadDayResponses ==
    {Response(TRUE, 0, BodyInvalid),
     Response(FALSE, StatusInternalServerError, BodyData(<<Good1, Good2>>)),
     Response(FALSE, StatusOK, BodyInvalid),
     Response(FALSE, StatusOK, BodyTopArray),
     Response(FALSE, StatusOK, BodyNoData),
     Response(FALSE, StatusOK, BodyScalarData),
     Response(FALSE, StatusOK, BodyData(<<Good2, NoEpss>>)),
     Response(FALSE, StatusOK, BodyData(<<BadEpss>>)),
     Response(FALSE, StatusOK, BodyData(<<Good1, JScalarElem>>))}

DayResponses(date) ==
    {Response(FALSE, StatusOK, BodyData(ListingElems(l, date))) : l \in Listings}
        \cup BadDayResponses

(***************************************************************************)
(* The single-request operations.  Each is one action: it issues its       *)
(* request (logged in http), and the answer decides what it returns.       *)
(* unmarshalled holds the positions in http of the requests whose body     *)
(* was handed to json.Unmarshal.                                           *)
(***************************************************************************)
\* fetchData and json.Unmarshal into an interface{}, then convert(result)
decodeWith(resp, converted) ==
    LET f == fetchData(resp)
    IN IF f.err # "" THEN RetErr(f.err)
       ELSE IF UnmarshalFails(f.data, FALSE)
            THEN RetErr("failed to unmarshal JSON response")
            ELSE converted

\* GetCVEScore without the length check: indexing the empty slice panics
GetCVEScoreResult_NoLengthCheck(resp) ==
    LET cveData == convertAPIResponseToCVEData(fetchData(resp).data)
    IN decodeWith(resp,
          IF cveData.status # "ok" THEN cveData
          ELSE IF Len(cveData.cves) = 0 THEN RetPanic
          ELSE RetOK(<<cveData.cves[1]>>))

GetCVEScoreResult(resp) ==
    LET cveData == convertAPIResponseToCVEData(fetchData(resp).data)
    IN decodeWith(resp,
          IF cveData.status # "ok" THEN cveData
          ELSE IF Len(cveData.cves) = 0 THEN RetErr("no CVE found for ID")
          ELSE RetOK(<<cveData.cves[1]>>))

GetTopNCVEsResult(resp) ==
    decodeWith(resp, convertAPIResponseToCVEDataArray(fetchData(resp).data))

GetCVEsForDateResult(resp) ==
    decodeWith(resp, convertAPIResponseToCVEDataArray(fetchData(resp).data))

GetTimeSeriesResult(resp) ==
    decodeWith(resp, convertAPIResponseToCVEDataArray(fetchData(resp).data))

GetCVEsAboveThresholdResult(resp) ==
    decodeWith(resp, convertAPIResponseToCVEDataArray(fetchData(resp).data))

Exchange(params, resp) == [params |-> params, resp |-> resp]

\* the bookkeeping common to the five single-request operations
Single(name, params, resp, result) ==
    /\ pc = "idle"
    /\ pc' = "done"
    /\ op' = name
    /\ http' = Append(http, Exchange(params, resp))
    /\ unmarshalled' = IF fetchData(resp).err = "" THEN {Len(http) + 1} ELSE {}
    /\ ret' = result
    /\ UNCHANGED <<days, limit, i, scoreChangesMap>>

GetCVEScoreParams(cveID, date) ==
    IF date # "" THEN [cve |-> cveID, date |-> date] ELSE [cve |-> cveID]

GetCVEScore(cveID, date, resp) ==
    Single("GetCVEScore", GetCVEScoreParams(cveID, date), resp, GetCVEScoreResult(resp))

GetTopNCVEs(n, resp) ==
    Single("GetTopNCVEs", [order |-> "!epss", limit |-> Itoa(n)], resp,
           GetTopNCVEsResult(resp))

GetCVEsForDate(date, resp) ==
    Single("GetCVEsForDate", [date |-> date], resp, GetCVEsForDateResult(resp))

GetTimeSeries(cveID, resp) ==
    Single("GetTimeSeries", [cve |-> cveID, scope |-> "time-series"], resp,
           GetTimeSeriesResult(resp))

GetCVEsAboveThreshold(threshold, field, resp) ==
    Single("GetCVEsAboveThreshold", [gt |-> field, value |-> FormatFloat(threshold)], resp,
           GetCVEsAboveThresholdResult(resp))

(***************************************************************************)
(* GetHighestIncreases: the call, one step per day of its loop, and the    *)
(* return.                                                                 *)
(***************************************************************************)
\* foldCVE storing every later difference, whether or not it is higher
foldCVE_AlwaysStore(m, cve) ==
    IF cve.ID \in DOMAIN m
    THEN [m EXCEPT ![cve.ID] = cve.EPSSScore - m[cve.ID]]
    ELSE [c \in DOMAIN m \cup {cve.ID} |-> IF c = cve.ID THEN cve.EPSSScore ELSE m[c]]

\* foldCVE keeping the lower difference instead of the higher
foldCVE_KeepsLower(m, cve) ==
    IF cve.ID \in DOMAIN m
    THEN LET initialScore == m[cve.ID]
             scoreChange == cve.EPSSScore - initialScore
         IN IF scoreChange < m[cve.ID]
            THEN [m EXCEPT ![cve.ID] = scoreChange]
            ELSE m
    ELSE [c \in DOMAIN m \cup {cve.ID} |-> IF c = cve.ID THEN cve.EPSSScore ELSE m[c]]

\* the body of the loop over a day's records
foldCVE(m, cve) ==
    IF cve.ID \in DOMAIN m
    THEN LET initialScore == m[cve.ID]
             scoreChange == cve.EPSSScore - initialScore
         IN IF scoreChange > m[cve.ID]
            THEN [m EXCEPT ![cve.ID] = scoreChange]
            ELSE m
    ELSE [c \in DOMAIN m \cup {cve.ID} |-> IF c = cve.ID THEN cve.EPSSScore ELSE m[c]]

RECURSIVE foldList(_, _)
foldList(m, cveList) ==
    IF cveList = <<>> THEN m
    ELSE foldList(foldCVE(m, Head(cveList)), Tail(cveList))

\* fetchData, json.Unmarshal into a map, conversion: what one day yields
dayResult(resp) ==
    LET f == fetchData(resp)
    IN IF f.err # "" THEN RetErr(f.err)
       ELSE IF UnmarshalFails(f.data, TRUE)
            THEN RetErr("failed to unmarshal JSON response")
            ELSE convertAPIResponseToCVEDataArray(f.data)

GetHighestIncreasesCall(d, l) ==
    /\ pc = "idle"
    /\ pc' = "loop"
    /\ op' = "GetHighestIncreases"
    /\ days' = d
    /\ limit' = l
    /\ i' = 0
    /\ scoreChangesMap' = [c \in {} |-> 0]
    /\ UNCHANGED <<http, unmarshalled, ret>>

startDate == AddDate(Now, -days)

GetHighestIncreasesDay ==
    /\ pc = "loop"
    /\ i <= days
    /\ LET date == Format(AddDate(startDate, i))
       IN \E resp \in DayResponses(date) :
             LET r == dayResult(resp)
             IN /\ http' = Append(http, Exchange([date |-> date], resp))
                /\ unmarshalled' = IF fetchData(resp).err = ""
                                   THEN unmarshalled \cup {Len(http) + 1}
                                   ELSE unmarshalled
                /\ IF r.status = "ok"
                   THEN /\ scoreChangesMap' = foldList(scoreChangesMap, r.cves)
                        /\ i' = i + 1
                        /\ UNCHANGED <<pc, ret>>
                   ELSE /\ ret' = r
                        /\ pc' = "done"
                        /\ UNCHANGED <<i, scoreChangesMap>>
    /\ UNCHANGED <<op, days, limit>>

\* less comparing the wrong way round
less_Ascending(a, b) == a.ScoreChange < b.ScoreChange

\* the comparison handed to sort.Slice
less(a, b) == a.ScoreChange > b.ScoreChange

\* the slice built by ranging over the map: its entries in any order
mapEntries(m) ==
    {[k \in 1..Cardinality(DOMAIN m) |->
         [CVE |-> p[k], Date |-> Now, ScoreChange |-> m[p[k]]]] :
       p \in {q \in [1..Cardinality(DOMAIN m) -> DOMAIN m] :
                \A x, y \in 1..Cardinality(DOMAIN m) : x # y => q[x] # q[y]}}

\* sort.Slice is not stable and the map is ranged over in no fixed order:
\* the sorted slice is any arrangement that the comparison does not contradict
sortSlice(m) ==
    {s \in mapEntries(m) : \A x, y \in 1..Len(s) : x < y => ~less(s[y], s[x])}

\* truncate keeping one entry too many
truncate_OffByOne(scoreChanges, l) ==
    IF Len(scoreChanges) > l THEN SubSeq(scoreChanges, 1, l + 1) ELSE scoreChanges

truncate(scoreChanges, l) ==
    IF Len(scoreChanges) > l THEN SubSeq(scoreChanges, 1, l) ELSE scoreChanges

GetHighestIncreasesReturn ==
    /\ pc = "loop"
    /\ i > days
    /\ \E scoreChanges \in sortSlice(scoreChangesMap) :
          ret' = RetChanges(truncate(scoreChanges, limit))
    /\ pc' = "done"
    /\ UNCHANGED <<op, days, limit, i, scoreChangesMap, http, unmarshalled>>

(***************************************************************************)
(* The specification: one call of one operation.                           *)
(***************************************************************************)
DateArgs == {"", "2024-10-01"}
Thresholds == {950, 955, 375}
Fields == {"epss", "percentile"}

\* a command line: the command name, the flags given and their values; a
\* flag that is not given reads as the empty string
CommandLine(name, given, cve, date, n, d, l, threshold, field) ==
    [name |-> name, given |-> given, cve |-> cve, date |-> date, n |-> n,
     days |-> d, limit |-> l, threshold |-> threshold, field |-> field]

\* the repository called directly, without a command line
NoCommandLine == CommandLine("", {}, "", "", <<>>, <<>>, <<>>, <<>>, "")

Init ==
    /\ argv = NoCommandLine
    /\ cliErr = ""
    /\ pc = "idle"
    /\ op = "none"
    /\ days = 0
    /\ limit = 0
    /\ i = 0
    /\ scoreChangesMap = [c \in {} |-> 0]
    /\ http = <<>>
    /\ unmarshalled = {}
    /\ ret = NoRet

\* a call is made once, from the idle state
Call ==
    /\ pc = "idle"
    /\ \/ \E cveID \in CVEIds, date \in DateArgs, resp \in Responses :
             GetCVEScore(cveID, date, resp)
       \/ \E n \in 0..MaxData + 1, resp \in Responses : GetTopNCVEs(n, resp)
       \/ \E date \in DateArgs, resp \in Responses : GetCVEsForDate(date, resp)
       \/ \E cveID \in CVEIds, resp \in Responses : GetTimeSeries(cveID, resp)
       \/ \E threshold \in Thresholds, field \in Fields, resp \in Responses :
             GetCVEsAboveThreshold(threshold, field, resp)
       \/ \E d \in 0..MaxDays, l \in 0..MaxLimit : GetHighestIncreasesCall(d, l)

Next ==
    \/ Call /\ UNCHANGED cli
    \/ GetHighestIncreasesDay /\ UNCHANGED cli
    \/ GetHighestIncreasesReturn /\ UNCHANGED cli

Spec == Init /\ [][Next]_vars

(***************************************************************************)
(* What the upstream served, read back from the log of exchanges.          *)
(***************************************************************************)
GHI == op = "GetHighestIncreases"

Returned == pc = "done" /\ ret.status = "ok"

\* the k-th request was answered with a listing that decodes
Served(k) == dayResult(http[k].resp).status = "ok"

\* the records of the k-th answer
Records(k) == dayResult(http[k].resp).cves

\* the days on which c was listed, and its score on such a day
SightingDays(c) ==
    {k \in 1..Len(http) :
       LET r == dayResult(http[k].resp)
       IN r.status = "ok" /\ \E n \in 1..Len(r.cves) : r.cves[n].ID = c}

ScoreOn(c, k) ==
    LET r == Records(k)
        n == CHOOSE x \in 1..Len(r) : r[x].ID = c
    IN r[n].EPSSScore

ObservedIds == {c \in CVEIds : SightingDays(c) # {}}

Max(S) == CHOOSE x \in S : \A y \in S : y <= x
Min(a, b) == IF a < b THEN a ELSE b

\* the largest value of (score on a later day - score on an earlier day),
\* for a CVE sighted on two days at least
MaxIncrease(c) ==
    LET on == SightingDays(c)
        score == [k \in on |-> ScoreOn(c, k)]
    IN Max(UNION {{score[y] - score[x] : y \in {k \in on : k > x}} : x \in on})

ReturnedIds == {ret.changes[k].CVE : k \in 1..Len(ret.changes)}

DeltaOf(c) ==
    LET k == CHOOSE x \in 1..Len(ret.changes) : ret.changes[x].CVE = c
    IN ret.changes[k].ScoreChange

(***************************************************************************)
(* C1.  GetHighestIncreases returns the `limit` CVEs whose score rose the  *)
(* most over the window, and the delta of each returned CVE is its         *)
(* maximum observed increase: the largest (score on a later day - score    *)
(* on an earlier day) among its sightings.  Stated for the CVEs sighted on *)
(* two days at least, for which that maximum exists.                       *)
(***************************************************************************)
C1_ReportsMaximumIncrease ==
    (GHI /\ Returned) =>
        /\ \A c \in ReturnedIds :
              Cardinality(SightingDays(c)) >= 2 => DeltaOf(c) = MaxIncrease(c)
        /\ \A c \in ReturnedIds, e \in ObservedIds \ ReturnedIds :
              (Cardinality(SightingDays(c)) >= 2 /\ Cardinality(SightingDays(e)) >= 2)
                  => MaxIncrease(c) >= MaxIncrease(e)

(***************************************************************************)
(* C2.  When the upstream serves the same listing on every day of the      *)
(* window (each CVE at one constant score s >= 0), GetHighestIncreases     *)
(* succeeds and returns min(limit, number of CVEs) entries, ordered by     *)
(* score descending, each with ScoreChange equal to the CVE's score s.     *)
(***************************************************************************)
\* the (id, score) pairs of the k-th answer, in order
Listed(k) ==
    LET r == Records(k)
    IN [n \in 1..Len(r) |-> [ID |-> r[n].ID, EPSSScore |-> r[n].EPSSScore]]

\* every answer so far is a listing, and the same one
SteadySoFar ==
    /\ Len(http) >= 1
    /\ \A k \in 1..Len(http) : Served(k)
    /\ LET first == Listed(1)
       IN /\ \A k \in 2..Len(http) : Listed(k) = first
          /\ \A x, y \in 1..Len(first) : x # y => first[x].ID # first[y].ID

C2_SteadyListingReportsScores ==
    (GHI /\ pc = "done" /\ SteadySoFar) =>
        LET first == Listed(1)
            unreturned == {n \in 1..Len(first) : first[n].ID \notin ReturnedIds}
        IN /\ ret.status = "ok"
           /\ Len(http) = days + 1
           /\ Len(ret.changes) = Min(limit, Len(first))
           /\ \A k \in 1..Len(ret.changes) :
                 \E n \in 1..Len(first) :
                    /\ first[n].ID = ret.changes[k].CVE
                    /\ first[n].EPSSScore = ret.changes[k].ScoreChange
           /\ \A x, y \in 1..Len(ret.changes) :
                 x < y => ret.changes[x].ScoreChange >= ret.changes[y].ScoreChange
           /\ \A n \in unreturned, k \in 1..Len(ret.changes) :
                 ret.changes[k].ScoreChange >= first[n].EPSSScore

\* the test's case: two CVEs at different constant scores over the longest
\* window, both returned, the higher score first
C2_Witness ==
    /\ GHI /\ Returned /\ SteadySoFar
    /\ days = MaxDays /\ limit = 2
    /\ Len(ret.changes) = 2
    /\ ret.changes[1].CVE = "CVE-B" /\ ret.changes[1].ScoreChange = 5
    /\ ret.changes[2].CVE = "CVE-A" /\ ret.changes[2].ScoreChange = 4

(***************************************************************************)
(* C3.  With CVE-A listed at 0.0004 then 0.0009 and CVE-B at 0.0005 on     *)
(* both days, GetHighestIncreases(1, 1) returns exactly one entry in every *)
(* execution: CVE-A with delta 0.0005.                                     *)
(***************************************************************************)
ExampleWindow ==
    /\ GHI /\ days = 1 /\ limit = 1 /\ Len(http) = 2
    /\ Served(1) /\ Served(2)
    /\ Listed(1) = <<[ID |-> "CVE-A", EPSSScore |-> 4], [ID |-> "CVE-B", EPSSScore |-> 5]>>
    /\ Listed(2) = <<[ID |-> "CVE-A", EPSSScore |-> 9], [ID |-> "CVE-B", EPSSScore |-> 5]>>

C3_ExampleRanksCveAFirst ==
    (ExampleWindow /\ pc = "done") =>
        /\ ret.status = "ok"
        /\ Len(ret.changes) = 1
        /\ ret.changes[1].CVE = "CVE-A"
        /\ ret.changes[1].ScoreChange = 5

(***************************************************************************)
(* C4.  On every successful return of GetHighestIncreases the output is    *)
(* sorted strictly descending by delta: each entry's delta is strictly     *)
(* greater than the next entry's.                                          *)
(***************************************************************************)
C4_StrictlyDescending ==
    (GHI /\ Returned) =>
        \A k \in 1..Len(ret.changes) - 1 :
           ret.changes[k].ScoreChange > ret.changes[k + 1].ScoreChange

\* C4 as amended: on every successful return the output is sorted descending
\* by delta with ties allowed: no entry's delta is smaller than the next
\* entry's.
C4_Descending ==
    (GHI /\ Returned) =>
        \A k \in 1..Len(ret.changes) - 1 :
           ret.changes[k].ScoreChange >= ret.changes[k + 1].ScoreChange

\* two entries with different deltas were returned, the CVE that comes
\* second in the listings ahead of the first
C4_Witness ==
    /\ GHI /\ Returned
    /\ Len(ret.changes) = 2
    /\ ret.changes[1].CVE = "CVE-B"
    /\ ret.changes[1].ScoreChange > ret.changes[2].ScoreChange

(***************************************************************************)
(* C5.  On every successful return of GetHighestIncreases (days >= 0,      *)
(* limit >= 0) the output length is min(limit, number of distinct CVE ids  *)
(* observed across all fetched days), and no CVE id appears twice.         *)
(***************************************************************************)
C5_LengthAndDistinctIds ==
    (GHI /\ Returned) =>
        /\ Len(ret.changes) = Min(limit, Cardinality(ObservedIds))
        /\ \A x, y \in 1..Len(ret.changes) :
              x # y => ret.changes[x].CVE # ret.changes[y].CVE

\* a return that was truncated: more CVEs observed over several days than
\* the limit lets through
C5_Witness ==
    /\ GHI /\ Returned
    /\ days >= 1
    /\ limit = 1
    /\ Cardinality(ObservedIds) = 2
    /\ Cardinality(SightingDays("CVE-A")) >= 2
    /\ Len(ret.changes) = 1

(***************************************************************************)
(* C6.  In GetHighestIncreases, if the fetch or decode of any single day   *)
(* fails, the whole aggregation ends with an error and no result list,     *)
(* and no fetch for a later day is issued after the failing one.           *)
(***************************************************************************)
C6_FailedDayEndsWithError ==
    GHI =>
        \A k \in 1..Len(http) :
           ~Served(k) =>
              /\ pc = "done"
              /\ ret.status = "error"
              /\ ret.changes = <<>>
              /\ k = Len(http)

(***************************************************************************)
(* C7.  A GetCVEScore whose 200 response decodes to an empty data array    *)
(* returns the not-found error and no record, and that error is told       *)
(* apart from a transport failure and from a decode failure: no other      *)
(* answer produces it.                                                     *)
(***************************************************************************)
NotFound == "no CVE found for ID"

EmptyData(resp) ==
    /\ ~resp.neterr
    /\ resp.status = StatusOK
    /\ resp.body.json = "object"
    /\ resp.body.data = "array"
    /\ Len(resp.body.elems) = 0

C7_EmptyDataIsNotFound ==
    (op = "GetCVEScore" /\ pc = "done") =>
        /\ EmptyData(http[1].resp) =>
              (ret.status = "error" /\ ret.err = NotFound /\ ret.cves = <<>>)
        /\ ~EmptyData(http[1].resp) => ret.err # NotFound

C7_Witness ==
    /\ op = "GetCVEScore" /\ pc = "done"
    /\ EmptyData(http[1].resp)
    /\ ret.err = NotFound

(***************************************************************************)
(* C8.  GetTopNCVEs, GetCVEsForDate, GetTimeSeries and                     *)
(* GetCVEsAboveThreshold, given a well-formed 200 response, return exactly *)
(* the records of its data array in response order, none added, dropped,   *)
(* reordered or altered (so a Top-N asking for more than there is returns  *)
(* all there is and no error); GetCVEScore returns the first record with   *)
(* its id, score, percentile and date unchanged.                           *)
(***************************************************************************)
DigitChars == {"0", "1", "2", "3", "4", "5", "6", "7", "8", "9"}

IsNumeral(s) == Len(s) > 0 /\ \A k \in 1..Len(s) : s[k] \in DigitChars

CharValue(c) ==
    CASE c = "0" -> 0 [] c = "1" -> 1 [] c = "2" -> 2 [] c = "3" -> 3 [] c = "4" -> 4
      [] c = "5" -> 5 [] c = "6" -> 6 [] c = "7" -> 7 [] c = "8" -> 8 [] c = "9" -> 9

\* the number a numeral denotes: the sum of its digits times their place values
RECURSIVE PlaceSum(_, _)
PlaceSum(s, k) ==
    IF k > Len(s) THEN 0
    ELSE CharValue(s[k]) * 10 ^ (Len(s) - k) + PlaceSum(s, k + 1)

WellFormedElem(e) ==
    /\ e.obj
    /\ e.cve.str /\ e.epss.str /\ e.percentile.str /\ e.date.str
    /\ IsNumeral(e.epss.s) /\ IsNumeral(e.percentile.s)

WellFormed(resp) ==
    /\ ~resp.neterr
    /\ resp.status = StatusOK
    /\ resp.body.json = "object"
    /\ resp.body.data = "array"
    /\ \A k \in 1..Len(resp.body.elems) : WellFormedElem(resp.body.elems[k])

RecordOf(e) ==
    [ID |-> e.cve.s, EPSSScore |-> PlaceSum(e.epss.s, 1),
     Percentile |-> PlaceSum(e.percentile.s, 1), Date |-> e.date.s]

ListOperations ==
    {"GetTopNCVEs", "GetCVEsForDate", "GetTimeSeries", "GetCVEsAboveThreshold"}

C8_RecordsReturnedUnchanged ==
    (pc = "done" /\ op \in ListOperations \cup {"GetCVEScore"} /\ WellFormed(http[1].resp)) =>
        LET elems == http[1].resp.body.elems
        IN IF op = "GetCVEScore"
           THEN Len(elems) > 0 => (ret.status = "ok" /\ ret.cves = <<RecordOf(elems[1])>>)
           ELSE /\ ret.status = "ok"
                /\ ret.cves = [k \in 1..Len(elems) |-> RecordOf(elems[k])]

\* a Top-N asking for three records where the upstream has two
C8_Witness ==
    /\ pc = "done" /\ op = "GetTopNCVEs"
    /\ http[1].params.limit = "3"
    /\ http[1].resp = Response(FALSE, StatusOK, BodyData(<<Good1, Good2>>))
    /\ ret.status = "ok"
    /\ Len(ret.cves) = 2
    /\ ret.cves[1] = [ID |-> "CVE-A", EPSSScore |-> 4, Percentile |-> 13,
                      Date |-> "2024-10-01"]
    /\ ret.cves[2].EPSSScore = 50

(***************************************************************************)
(* C9.  For each of the six operations, an upstream status other than 200  *)
(* makes the operation return a failure with no records, and the body of   *)
(* that response is never handed to the JSON decoder.                      *)
(***************************************************************************)
C9_Non200NeverParsed ==
    \A k \in 1..Len(http) :
       (~http[k].resp.neterr /\ http[k].resp.status # StatusOK) =>
          /\ pc = "done"
          /\ ret.status = "error"
          /\ ret.cves = <<>>
          /\ ret.changes = <<>>
          /\ k \notin unmarshalled

\* the second day of an aggregation answered 500 after a first day that was
\* decoded
C9_Witness ==
    /\ GHI /\ pc = "done"
    /\ Len(http) = 2
    /\ http[2].resp.status = StatusInternalServerError
    /\ unmarshalled = {1}
    /\ ret.err = "unexpected status code"

(***************************************************************************)
(* C10.  Every 200 response whose body is not a JSON object with a data    *)
(* array of objects carrying string fields cve, epss, percentile and date  *)
(* with epss and percentile parseable as numbers makes the operation       *)
(* return a failure to its caller with no records: never a partial list,   *)
(* a default-filled record or an abnormal termination.                     *)
(***************************************************************************)
C10_MalformedBodyIsReturnedFailure ==
    \A k \in 1..Len(http) :
       (~http[k].resp.neterr /\ http[k].resp.status = StatusOK /\ ~WellFormed(http[k].resp)) =>
          /\ pc = "done"
          /\ ret.status = "error"
          /\ ret.cves = <<>>
          /\ ret.changes = <<>>

(***************************************************************************)
(* C14.  In every successful run of GetHighestIncreases(days, limit) with  *)
(* days >= 0, exactly days + 1 fetches are issued, one after another (a    *)
(* fetch is issued only when every earlier one has completed and been      *)
(* folded), one per calendar day, in ascending date order from             *)
(* (today - days) to today, no day skipped or fetched twice.               *)
(***************************************************************************)
Today == Len(Calendar)

C14_OneFetchPerDayInOrder ==
    GHI =>
        /\ pc = "loop" => Len(http) = i
        /\ Len(http) <= days + 1
        /\ \A k \in 1..Len(http) :
              /\ DOMAIN http[k].params = {"date"}
              /\ http[k].params.date = Calendar[Today - days + (k - 1)]
        /\ Returned => Len(http) = days + 1

\* a return after the longest window, fetched from 2024-10-01 to 2024-10-03
C14_Witness ==
    /\ GHI /\ Returned
    /\ days = 2
    /\ Len(http) = 3
    /\ http[1].params.date = "2024-10-01"
    /\ http[2].params.date = "2024-10-02"
    /\ http[3].params.date = "2024-10-03"

(***************************************************************************)
(* C16.  During GetHighestIncreases the value stored for a CVE id never    *)
(* decreases from one sighting to the next, so (scores being >= 0) the     *)
(* delta finally reported for a CVE is at least its first-sighting score   *)
(* and never negative, also for a CVE whose score only fell.               *)
(***************************************************************************)
FirstScore(c) ==
    LET on == SightingDays(c)
    IN ScoreOn(c, CHOOSE x \in on : \A y \in on : x <= y)

OnlyFell(c) ==
    LET on == SightingDays(c)
    IN /\ Cardinality(on) >= 2
       /\ \A x, y \in on : x < y => ScoreOn(c, y) < ScoreOn(c, x)

\* every stored value is at least the CVE's first-sighting score, and >= 0
StoredAtLeastFirst ==
    \A c \in DOMAIN scoreChangesMap :
       scoreChangesMap[c] >= FirstScore(c) /\ scoreChangesMap[c] >= 0

\* so is every delta returned
ReportedAtLeastFirst ==
    Returned => \A c \in ReturnedIds : DeltaOf(c) >= FirstScore(c) /\ DeltaOf(c) >= 0

C16_StoredValueNeverDecreases ==
    /\ [](GHI => StoredAtLeastFirst /\ ReportedAtLeastFirst)
    /\ [][GHI' =>
            \A c \in DOMAIN scoreChangesMap :
               /\ c \in DOMAIN scoreChangesMap'
               /\ scoreChangesMap'[c] >= scoreChangesMap[c]]_vars

\* CVE-A, whose score only fell from 0.0009, is reported with 0.0009
C16_Witness ==
    /\ GHI /\ Returned
    /\ OnlyFell("CVE-A")
    /\ "CVE-A" \in ReturnedIds
    /\ DeltaOf("CVE-A") = 9


(***************************************************************************)
(* The command line tool: main's command table and the six handlers.  A    *)
(* handler validates its flags, calls the repository and wraps the error   *)
(* it gets back.  Numeric flag values are digit strings; in the threshold  *)
(* query a threshold and a field value are written in thousandths (951     *)
(* stands for 0.951).                                                      *)
(***************************************************************************)
Flags == {"cve", "date", "n", "days", "limit", "threshold", "field"}

\* app.Commands: the flags each command defines and those it requires
Commands ==
    [name \in {"score", "topn", "highest", "date", "timeseries", "threshold"} |->
       CASE name = "score" -> [flags |-> {"cve", "date"}, required |-> {"cve"}]
         [] name = "topn" -> [flags |-> {"n"}, required |-> {"n"}]
         [] name = "highest" -> [flags |-> {"days", "limit"}, required |-> {"days", "limit"}]
         [] name = "date" -> [flags |-> {"date"}, required |-> {"date"}]
         [] name = "timeseries" -> [flags |-> {"cve"}, required |-> {"cve"}]
         [] name = "threshold" -> [flags |-> {"threshold", "field"},
                                   required |-> {"threshold", "field"}]]

\* the flags a command line gives
GivenFlags(cve, date, n, d, l, threshold, field) ==
    {f \in Flags : \/ f = "cve" /\ cve # ""
                   \/ f = "date" /\ date # ""
                   \/ f = "n" /\ n # <<>>
                   \/ f = "days" /\ d # <<>>
                   \/ f = "limit" /\ l # <<>>
                   \/ f = "threshold" /\ threshold # <<>>
                   \/ f = "field" /\ field # ""}

Line(name, cve, date, n, d, l, threshold, field) ==
    CommandLine(name, GivenFlags(cve, date, n, d, l, threshold, field),
                cve, date, n, d, l, threshold, field)

CveArgs == {"", "CVE-A"}
DateFlagArgs == {"", "2024-10-01", "not-a-date"}
NumberArgs == {<<>>, <<"1">>, <<"x">>}
ThresholdArgs == {<<>>, <<"9", "5", "0">>, <<"9", "5", "1">>, <<"3", "7", "5">>, <<"x">>}
FieldArgs == {"", "epss", "percentile"}

\* the command lines tried: the six commands of the table with each flag
\* absent, valid or invalid, and the documented `top --limit N`
CommandLines ==
    {Line("score", cve, date, <<>>, <<>>, <<>>, <<>>, "") :
        cve \in CveArgs, date \in DateFlagArgs}
      \cup {Line("topn", "", "", n, <<>>, <<>>, <<>>, "") : n \in NumberArgs}
      \cup {Line("top", "", "", <<>>, <<>>, l, <<>>, "") : l \in NumberArgs}
      \cup {Line("highest", "", "", <<>>, d, l, <<>>, "") :
              d \in NumberArgs, l \in NumberArgs}
      \cup {Line("date", "", date, <<>>, <<>>, <<>>, <<>>, "") : date \in DateFlagArgs}
      \cup {Line("timeseries", cve, "", <<>>, <<>>, <<>>, <<>>, "") : cve \in CveArgs}
      \cup {Line("threshold", "", "", <<>>, <<>>, <<>>, threshold, field) :
              threshold \in ThresholdArgs, field \in FieldArgs}

\* app.Run finds the command, knows its flags and has its required ones
Runs(name) ==
    /\ argv.name = name
    /\ argv.given \subseteq Commands[name].flags
    /\ Commands[name].required \subseteq argv.given

\* strconv.Atoi on an unsigned digit string
Atoi(s) == ParseFloat(s)

\* time.Parse("2006-01-02", dateStr)
TimeParse(dateStr) ==
    IF \E t \in 1..Len(Calendar) : Calendar[t] = dateStr
    THEN [err |-> FALSE, val |-> CHOOSE t \in 1..Len(Calendar) : Calendar[t] = dateStr]
    ELSE [err |-> TRUE, val |-> 0]

\* a handler returns an error of its own before it calls the repository
Refuse(msg) ==
    /\ cliErr' = msg
    /\ pc' = "done"
    /\ UNCHANGED <<op, days, limit, i, scoreChangesMap, http, unmarshalled, ret, argv>>

\* the handler wraps the error the repository returned
Wrap(msg) ==
    /\ cliErr' = IF ret'.status = "error" THEN msg ELSE cliErr
    /\ argv' = argv


\* an upstream that applies the <field>-gt filter it receives: of its
\* records it returns those whose field exceeds the value sent (hundredths)
Catalogue ==
    <<JObject(JString("CVE-A"), JString(<<"9", "5", "1">>), JString(<<"9", "6", "0">>),
              JString("2024-10-01")),
      JObject(JString("CVE-B"), JString(<<"9", "4", "9">>), JString(<<"9", "5", "1">>),
              JString("2024-10-01"))>>

FieldOf(elem, field) == IF field = "epss" THEN elem.epss.s ELSE elem.percentile.s

ApplyGt(field, value) ==
    SelectSeq(Catalogue,
              LAMBDA e : DecimalValue(FieldOf(e, field)) > 10 * DecimalValue(value))

ThresholdResponses(field, value) ==
    {Response(FALSE, StatusOK, BodyData(ApplyGt(field, value))),
     Response(FALSE, StatusInternalServerError, BodyInvalid),
     Response(TRUE, 0, BodyInvalid)}

\* app.Run runs no handler: the command is not in the table, a flag is not
\* one of the command's, or a required flag is missing
Rejected ==
    /\ pc = "idle"
    /\ ~\E name \in DOMAIN Commands : Runs(name)
    /\ Refuse("usage")

handleGetScore ==
    /\ pc = "idle"
    /\ Runs("score")
    /\ LET cveID == argv.cve
           dateStr == argv.date
           parsed == TimeParse(dateStr)
       IN IF dateStr # "" /\ parsed.err
          THEN Refuse("invalid date format")
          ELSE LET date == IF dateStr = "" THEN Now ELSE parsed.val
               IN /\ \E resp \in Responses : GetCVEScore(cveID, Format(date), resp)
                  /\ Wrap("failed to get CVE score")

handleTopNCVEs ==
    /\ pc = "idle"
    /\ Runs("topn")
    /\ LET n == Atoi(argv.n)
       IN IF n.err
          THEN Refuse("invalid n value")
          ELSE /\ \E resp \in Responses : GetTopNCVEs(n.val, resp)
               /\ Wrap("failed to get top N CVEs")

handleHighestIncreases ==
    /\ pc = "idle"
    /\ Runs("highest")
    /\ LET d == Atoi(argv.days)
           l == Atoi(argv.limit)
       IN IF d.err THEN Refuse("invalid days value")
          ELSE IF l.err THEN Refuse("invalid limit value")
          ELSE GetHighestIncreasesCall(d.val, l.val) /\ UNCHANGED cli

handleGetCVEsForDate ==
    /\ pc = "idle"
    /\ Runs("date")
    /\ LET dateStr == argv.date
       IN /\ \E resp \in Responses : GetCVEsForDate(dateStr, resp)
          /\ Wrap("failed to get CVEs for date")

handleGetTimeSeries ==
    /\ pc = "idle"
    /\ Runs("timeseries")
    /\ LET cveID == argv.cve
       IN /\ \E resp \in Responses : GetTimeSeries(cveID, resp)
          /\ Wrap("failed to get time series for CVE")

handleGetCVEsAboveThreshold ==
    /\ pc = "idle"
    /\ Runs("threshold")
    /\ LET threshold == ParseFloat(argv.threshold)
           field == argv.field
       IN IF threshold.err
          THEN Refuse("invalid threshold value")
          ELSE /\ \E resp \in ThresholdResponses(field, FormatFloat(threshold.val)) :
                     GetCVEsAboveThreshold(threshold.val, field, resp)
               /\ Wrap("failed to get CVEs above threshold")

\* the tool is started with one command line
InitCLI ==
    /\ argv \in CommandLines
    /\ cliErr = ""
    /\ pc = "idle"
    /\ op = "none"
    /\ days = 0
    /\ limit = 0
    /\ i = 0
    /\ scoreChangesMap = [c \in {} |-> 0]
    /\ http = <<>>
    /\ unmarshalled = {}
    /\ ret = NoRet

NextCLI ==
    \/ Rejected
    \/ handleGetScore
    \/ handleTopNCVEs
    \/ handleHighestIncreases
    \/ handleGetCVEsForDate
    \/ handleGetTimeSeries
    \/ handleGetCVEsAboveThreshold
    \/ GetHighestIncreasesDay /\ Wrap("failed to get highest increases")
    \/ GetHighestIncreasesReturn /\ Wrap("failed to get highest increases")

SpecCLI == InitCLI /\ [][NextCLI]_vars


(***************************************************************************)
(* C11.  With an upstream that applies exactly the <field>-gt value it     *)
(* receives, every record the threshold command gets back from             *)
(* GetCVEsAboveThreshold(t, field) has the named field strictly greater    *)
(* than t, the threshold the user gave (values in thousandths).            *)
(***************************************************************************)
FieldValue(cve, field) == IF field = "epss" THEN cve.EPSSScore ELSE cve.Percentile

C11_ReturnedAboveThreshold ==
    (op = "GetCVEsAboveThreshold" /\ ret.status = "ok") =>
        LET t == ParseFloat(argv.threshold).val
        IN \A k \in 1..Len(ret.cves) : FieldValue(ret.cves[k], argv.field) > t

(***************************************************************************)
(* C12.  For each of the six commands, when a flag value is invalid (a     *)
(* required flag is missing, a date is malformed, a limit, n, threshold or *)
(* days value is not numeric), no HTTP request is issued.                  *)
(***************************************************************************)
InvalidInput ==
    /\ argv.name \in DOMAIN Commands
    /\ \/ ~(Commands[argv.name].required \subseteq argv.given)
       \/ "date" \in argv.given /\ TimeParse(argv.date).err
       \/ "n" \in argv.given /\ Atoi(argv.n).err
       \/ "days" \in argv.given /\ Atoi(argv.days).err
       \/ "limit" \in argv.given /\ Atoi(argv.limit).err
       \/ "threshold" \in argv.given /\ ParseFloat(argv.threshold).err

C12_InvalidInputIssuesNoRequest == InvalidInput => http = <<>>

(***************************************************************************)
(* C13.  The command line `top --limit N` with N an integer runs the       *)
(* Top-N query with count N: when the tool is done it has issued one       *)
(* request, with order=!epss and limit=N.                                  *)
(***************************************************************************)
TopLimit ==
    /\ argv.name = "top"
    /\ argv.given = {"limit"}
    /\ ~Atoi(argv.limit).err

C13_TopLimitRunsTopN ==
    (TopLimit /\ pc = "done") =>
        /\ op = "GetTopNCVEs"
        /\ Len(http) = 1
        /\ http[1].params = [order |-> "!epss", limit |-> Itoa(Atoi(argv.limit).val)]

(***************************************************************************)
(* C15.  The request the `score` command issues is filtered by the CVE id  *)
(* given and has a date parameter if and only if the user gave --date.     *)
(***************************************************************************)
C15_DateParamIffSupplied ==
    (argv.name = "score" /\ op = "GetCVEScore") =>
        /\ Len(http) = 1
        /\ http[1].params.cve = argv.cve
        /\ "date" \in DOMAIN http[1].params <=> "date" \in argv.given

====
